---- MODULE Spec2Model ----
(***************************************************************************)
(* Model of the IHPS fluid calculator (src/server.js): the POST /calculate *)
(* handler, its input validation, and the fluid plan engine.               *)
(*                                                                         *)
(* Numbers are fixed-point integers, one scale per quantity:               *)
(*   sodium, chloride, hct            units        (129 is 129 mmol/L)     *)
(*   potassium, weight, glucose,                                           *)
(*   lactate                          tenths       (29 is 2.9)             *)
(*   ph                               hundredths   (755 is 7.55)           *)
(* The thresholds of the code are written in the scale of the quantity     *)
(* they are compared with.  A JavaScript value is a record tagged with its *)
(* type, so that undefined, null and NaN keep the behaviour they have in   *)
(* comparisons, truthiness tests and arithmetic.                           *)
(***************************************************************************)
EXTENDS Integers, Sequences, FiniteSets, TLC

VARIABLES body, snapshot, response

vars == <<body, snapshot, response>>

(***************************************************************************)
(* JavaScript values and the operators the code applies to them.           *)
(***************************************************************************)
Num(n) == [t |-> "number", v |-> n]

NaN == [t |-> "NaN"]

Null == [t |-> "null"]

Undefined == [t |-> "undefined"]

IsNum(x) == x.t = "number"

\* ToNumber of the relational operators: null is 0, undefined is NaN.
ToNumber(x) ==
    IF x.t = "number" THEN x
    ELSE IF x.t = "null" THEN Num(0)
    ELSE NaN

\* x < c, x > c, x <= c, x >= c: false whenever x converts to NaN.
Lt(x, c) == LET n == ToNumber(x) IN IsNum(n) /\ n.v < c

Gt(x, c) == LET n == ToNumber(x) IN IsNum(n) /\ n.v > c

Le(x, c) == LET n == ToNumber(x) IN IsNum(n) /\ n.v <= c

Ge(x, c) == LET n == ToNumber(x) IN IsNum(n) /\ n.v >= c

\* The truthiness test of `x ? a : b` and of `x && y`.
Truthy(x) == IsNum(x) /\ x.v # 0

\* parseFloat of a request value: a number parses to itself, anything else
\* (undefined, null) to NaN.
parseFloat(x) == IF IsNum(x) THEN x ELSE NaN

\* x * k and x + k for a numeric constant k; NaN propagates.
Times(x, k) == IF IsNum(x) THEN Num(x.v * k) ELSE NaN

Plus(x, k) == IF IsNum(x) THEN Num(x.v + k) ELSE NaN

\* Math.round of a value held in 1/scale units: floor(x + 0.5).
MathRound(x, scale) ==
    IF IsNum(x) THEN Num((2 * x.v + scale) \div (2 * scale)) ELSE NaN

\* Math.max(a, b) on the integers the code applies it to.
MathMax(a, b) == IF a >= b THEN a ELSE b

(***************************************************************************)
(* String.prototype.replace(pattern, replacement) with a string pattern:   *)
(* the first occurrence is replaced, a string without one is unchanged.    *)
(***************************************************************************)
IndexOf(s, pat) ==
    LET hits == {i \in 1..(Len(s) - Len(pat) + 1) :
                    SubSeq(s, i, i + Len(pat) - 1) = pat}
    IN  IF hits = {} THEN 0
        ELSE CHOOSE i \in hits : \A j \in hits : i <= j

Replace(s, pat, rep) ==
    LET i == IndexOf(s, pat)
    IN  IF i = 0 THEN s
        ELSE SubSeq(s, 1, i - 1) \o rep \o SubSeq(s, i + Len(pat), Len(s))

(***************************************************************************)
(* validateInputs                                                          *)
(***************************************************************************)
validateInputs(in) ==
    IF Lt(in.sodium, 120) \/ Gt(in.sodium, 155)
    THEN [valid |-> FALSE, error |-> "Sodium must be between 120-155 mmol/L"]
    ELSE IF Lt(in.potassium, 20) \/ Gt(in.potassium, 80)
    THEN [valid |-> FALSE, error |-> "Potassium must be between 2.0-8.0 mmol/L"]
    ELSE IF Lt(in.chloride, 60) \/ Gt(in.chloride, 120)
    THEN [valid |-> FALSE, error |-> "Chloride must be between 60-120 mmol/L"]
    ELSE IF Lt(in.ph, 700) \/ Gt(in.ph, 770)
    THEN [valid |-> FALSE, error |-> "pH must be between 7.0-7.7"]
    ELSE IF Lt(in.weight, 10) \/ Gt(in.weight, 100)
    THEN [valid |-> FALSE, error |-> "Weight must be between 1.0-10.0 kg"]
    ELSE [valid |-> TRUE]

(***************************************************************************)
(* calculateCorrectionTime: hours.                                         *)
(***************************************************************************)
\* Variant: moderate alkalosis adds six hours instead of raising the floor.
calculateCorrectionTime_PhAdds(in) ==
    LET afterSodium ==
            IF Lt(in.sodium, 130) THEN 36
            ELSE IF Lt(in.sodium, 135) THEN 24
            ELSE IF Ge(in.sodium, 135) THEN 12
            ELSE 12
        afterChloride ==
            IF Lt(in.chloride, 70) THEN MathMax(afterSodium, 36)
            ELSE IF Lt(in.chloride, 90) THEN MathMax(afterSodium, 24)
            ELSE afterSodium
        afterPh ==
            IF Gt(in.ph, 755) THEN MathMax(afterChloride, 24)
            ELSE IF Gt(in.ph, 745) THEN afterChloride + 6
            ELSE afterChloride
    IN  IF Lt(in.weight, 30) THEN afterPh + 6 ELSE afterPh

\* Variant: the chloride rule overwrites the running value instead of raising it.
calculateCorrectionTime_ChlorideOverwrites(in) ==
    LET afterSodium ==
            IF Lt(in.sodium, 130) THEN 36
            ELSE IF Lt(in.sodium, 135) THEN 24
            ELSE IF Ge(in.sodium, 135) THEN 12
            ELSE 12
        afterChloride ==
            IF Lt(in.chloride, 70) THEN 36
            ELSE IF Lt(in.chloride, 90) THEN 24
            ELSE afterSodium
        afterPh ==
            IF Gt(in.ph, 755) THEN MathMax(afterChloride, 24)
            ELSE IF Gt(in.ph, 745) THEN MathMax(afterChloride, 18)
            ELSE afterChloride
    IN  IF Lt(in.weight, 30) THEN afterPh + 6 ELSE afterPh

calculateCorrectionTime(in) ==
    LET afterSodium ==
            IF Lt(in.sodium, 130) THEN 36
            ELSE IF Lt(in.sodium, 135) THEN 24
            ELSE IF Ge(in.sodium, 135) THEN 12
            ELSE 12
        afterChloride ==
            IF Lt(in.chloride, 70) THEN MathMax(afterSodium, 36)
            ELSE IF Lt(in.chloride, 90) THEN MathMax(afterSodium, 24)
            ELSE afterSodium
        afterPh ==
            IF Gt(in.ph, 755) THEN MathMax(afterChloride, 24)
            ELSE IF Gt(in.ph, 745) THEN MathMax(afterChloride, 18)
            ELSE afterChloride
    IN  IF Lt(in.weight, 30) THEN afterPh + 6 ELSE afterPh

(***************************************************************************)
(* generateSimpleAlerts                                                    *)
(***************************************************************************)
\* Variant: the hyperkalaemia alert fires at the overlay's 5.0 threshold.
generateSimpleAlerts_AlertAtFive(in) ==
    LET a1 == IF Lt(in.potassium, 30)
              THEN <<"CRITICAL: Severe hypokalaemia - aggressive KCl needed">>
              ELSE <<>>
        a2 == IF Gt(in.potassium, 50)
              THEN Append(a1, "CRITICAL: Hyperkalaemia risk - hold KCl, monitor closely")
              ELSE a1
        a3 == IF Lt(in.sodium, 130)
              THEN Append(a2, "WARNING: Severe hyponatremia - use NS + 5% Dextrose")
              ELSE a2
        a4 == IF Lt(in.chloride, 70)
              THEN Append(a3, "WARNING: Severe hypochloremia - expect longer correction time")
              ELSE a3
    IN  IF Gt(in.ph, 755)
        THEN Append(a4, "WARNING: Severe alkalosis - slow correction needed")
        ELSE a4

generateSimpleAlerts(in) ==
    LET a1 == IF Lt(in.potassium, 30)
              THEN <<"CRITICAL: Severe hypokalaemia - aggressive KCl needed">>
              ELSE <<>>
        a2 == IF Gt(in.potassium, 55)
              THEN Append(a1, "CRITICAL: Hyperkalaemia risk - hold KCl, monitor closely")
              ELSE a1
        a3 == IF Lt(in.sodium, 130)
              THEN Append(a2, "WARNING: Severe hyponatremia - use NS + 5% Dextrose")
              ELSE a2
        a4 == IF Lt(in.chloride, 70)
              THEN Append(a3, "WARNING: Severe hypochloremia - expect longer correction time")
              ELSE a3
    IN  IF Gt(in.ph, 755)
        THEN Append(a4, "WARNING: Severe alkalosis - slow correction needed")
        ELSE a4

(***************************************************************************)
(* selectOptimalFluidEnhanced: the base fluid by glucose and sodium, then  *)
(* the potassium overlay as a textual transform of the chosen label.       *)
(***************************************************************************)
baseFluidSelection(in) ==
    IF Truthy(in.glucose) /\ Lt(in.glucose, 25)
    THEN IF Lt(in.sodium, 135)
         THEN [fluid  |-> "D10 1/2 NS + 20 mEq/L KCl",
               reason |-> "Low glucose + low sodium - D10 1/2 NS for both glucose and sodium correction"]
         ELSE [fluid  |-> "D10 NS + 20 mEq/L KCl",
               reason |-> "Low glucose + normal sodium - D10 NS for glucose support"]
    ELSE IF Truthy(in.glucose) /\ Lt(in.glucose, 30)
    THEN IF Lt(in.sodium, 135)
         THEN [fluid  |-> "D10 1/2 NS + 20 mEq/L KCl",
               reason |-> "Mildly low glucose + low sodium - D10 1/2 NS"]
         ELSE [fluid  |-> "D5 1/2 NS + 20 mEq/L KCl",
               reason |-> "Mildly low glucose - standard D5 1/2 NS with monitoring"]
    ELSE IF Lt(in.sodium, 135)
         THEN [fluid  |-> "NS + 5% Dextrose + 20 mEq/L KCl",
               reason |-> "Low sodium - NS + 5% Dextrose for sodium correction"]
         ELSE [fluid  |-> "D5 1/2 NS + 20 mEq/L KCl",
               reason |-> "Normal sodium - standard D5 1/2 NS"]

\* Variant: the hold branch removes the additive but not the " + " before it.
adjustKCl_LeavesPlus(sel, potassium) ==
    IF Lt(potassium, 30)
    THEN [fluid  |-> Replace(sel.fluid, "20 mEq/L", "40 mEq/L"),
          reason |-> sel.reason \o " + aggressive KCl for severe hypokalaemia"]
    ELSE IF Gt(potassium, 50)
    THEN [fluid  |-> Replace(sel.fluid, "20 mEq/L KCl", ""),
          reason |-> sel.reason \o " + hold KCl for hyperkalaemia"]
    ELSE sel

adjustKCl(sel, potassium) ==
    IF Lt(potassium, 30)
    THEN [fluid  |-> Replace(sel.fluid, "20 mEq/L", "40 mEq/L"),
          reason |-> sel.reason \o " + aggressive KCl for severe hypokalaemia"]
    ELSE IF Gt(potassium, 50)
    THEN [fluid  |-> Replace(sel.fluid, " + 20 mEq/L KCl", ""),
          reason |-> sel.reason \o " + hold KCl for hyperkalaemia"]
    ELSE sel

selectOptimalFluidEnhanced(in) == adjustKCl(baseFluidSelection(in), in.potassium)

(***************************************************************************)
(* calculateBolusRecommendation                                            *)
(***************************************************************************)
bolusTier(in) ==
    IF Lt(in.sodium, 130) \/ Lt(in.chloride, 70) \/ Gt(in.ph, 755)
    THEN [volume |-> 20,
          reason |-> "Severe depletion - 20 mL/kg NS bolus recommended"]
    ELSE IF Lt(in.sodium, 135) \/ Lt(in.chloride, 90) \/ Gt(in.ph, 745)
    THEN [volume |-> 10,
          reason |-> "Moderate depletion - 10 mL/kg NS bolus recommended"]
    ELSE [volume |-> 0,
          reason |-> "No bolus needed - mild abnormalities"]

\* Variant: an escalator sets the volume to 10 instead of raising it to 10.
calculateBolusRecommendation_EscalatorSets(in) ==
    LET tier == bolusTier(in)
        afterHct ==
            IF Truthy(in.hct) /\ Gt(in.hct, 50)
            THEN [volume |-> 10,
                  reason |-> tier.reason \o " + high hematocrit indicates dehydration"]
            ELSE tier
        afterLactate ==
            IF Truthy(in.lactate) /\ Gt(in.lactate, 20)
            THEN [volume |-> 10,
                  reason |-> afterHct.reason \o " + elevated lactate indicates poor perfusion"]
            ELSE afterHct
    IN  [volume      |-> afterLactate.volume,
         totalVolume |-> MathRound(Times(in.weight, afterLactate.volume), 10),
         reason      |-> afterLactate.reason]

calculateBolusRecommendation(in) ==
    LET tier == bolusTier(in)
        afterHct ==
            IF Truthy(in.hct) /\ Gt(in.hct, 50)
            THEN [volume |-> MathMax(tier.volume, 10),
                  reason |-> tier.reason \o " + high hematocrit indicates dehydration"]
            ELSE tier
        afterLactate ==
            IF Truthy(in.lactate) /\ Gt(in.lactate, 20)
            THEN [volume |-> MathMax(afterHct.volume, 10),
                  reason |-> afterHct.reason \o " + elevated lactate indicates poor perfusion"]
            ELSE afterHct
    IN  [volume      |-> afterLactate.volume,
         totalVolume |-> MathRound(Times(in.weight, afterLactate.volume), 10),
         reason      |-> afterLactate.reason]

(***************************************************************************)
(* calculateNextLabCheck                                                   *)
(***************************************************************************)
calculateNextLabCheck(correctionTime) ==
    IF correctionTime <= 24
    THEN "Next lab check in 12 hours (critical first 24 hours)"
    ELSE "Next lab check in 24 hours (monitoring improvement)"

(***************************************************************************)
(* calculateIHPSFluidPlan.  The two rates are held in tenths of mL/hr      *)
(* until Math.round makes them whole.                                      *)
(***************************************************************************)
maintenanceRateOf(weight) ==
    IF Le(weight, 100) THEN Times(weight, 4)
    ELSE Plus(Times(Plus(weight, -100), 2), 10 * 4 * 10)

\* Variant: past 10 kg the fluid rate grows at the maintenance slope.
fluidRatePerHourOf_MaintenanceSlope(weight) ==
    IF Le(weight, 100) THEN Times(weight, 6)
    ELSE Plus(Times(Plus(weight, -100), 2), 10 * 6 * 10)

fluidRatePerHourOf(weight) ==
    IF Le(weight, 100) THEN Times(weight, 6)
    ELSE Plus(Times(Plus(weight, -100), 3), 10 * 6 * 10)

\* Variant: the total is taken from the rate already rounded for display.
totalFluidVolumeOf_RoundedRate(fluidRatePerHour, correctionTime) ==
    Times(Times(MathRound(fluidRatePerHour, 10), 10), correctionTime)

totalFluidVolumeOf(fluidRatePerHour, correctionTime) ==
    Times(fluidRatePerHour, correctionTime)

calculateIHPSFluidPlan(in) ==
    LET maintenanceRate  == maintenanceRateOf(in.weight)
        fluidRatePerHour == fluidRatePerHourOf(in.weight)
        fluidSelection   == selectOptimalFluidEnhanced(in)
        correctionTime   == calculateCorrectionTime(in)
        totalFluidVolume == totalFluidVolumeOf(fluidRatePerHour, correctionTime)
    IN  [fluidType            |-> fluidSelection.fluid,
         fluidSelectionReason |-> fluidSelection.reason,
         fluidRatePerHour     |-> MathRound(fluidRatePerHour, 10),
         maintenanceRate      |-> MathRound(maintenanceRate, 10),
         correctionTime       |-> correctionTime,
         totalFluidVolume     |-> MathRound(totalFluidVolume, 10),
         bolusRecommendation  |-> calculateBolusRecommendation(in),
         alerts               |-> generateSimpleAlerts(in),
         recheckInterval      |-> IF correctionTime <= 24 THEN "12 hours" ELSE "24 hours",
         nextLabCheck         |-> calculateNextLabCheck(correctionTime)]

(***************************************************************************)
(* app.post('/calculate'): the snapshot the handler builds from a request  *)
(* body, and the response it sends.  The optional fields the engine never  *)
(* reads (urineOutput, pco2, be, hco3) are left out.                       *)
(***************************************************************************)
optional(x) == IF Truthy(x) THEN parseFloat(x) ELSE Null

snapshotOf(b) ==
    [sodium     |-> parseFloat(b.sodium),
     potassium  |-> parseFloat(b.potassium),
     chloride   |-> parseFloat(b.chloride),
     ph         |-> parseFloat(b.ph),
     weight     |-> parseFloat(b.weight),
     glucose    |-> optional(b.glucose),
     hct        |-> optional(b.hct),
     lactate    |-> optional(b.lactate),
     creatinine |-> optional(b.creatinine),
     bun        |-> optional(b.bun)]

successResponse(plan) ==
    [success              |-> TRUE,
     fluidType            |-> plan.fluidType,
     fluidSelectionReason |-> plan.fluidSelectionReason,
     fluidRatePerHour     |-> plan.fluidRatePerHour,
     maintenanceRate      |-> plan.maintenanceRate,
     correctionTime       |-> plan.correctionTime,
     totalFluidVolume     |-> plan.totalFluidVolume,
     bolusRecommendation  |-> plan.bolusRecommendation,
     alerts               |-> plan.alerts,
     recheckInterval      |-> plan.recheckInterval,
     nextLabCheck         |-> plan.nextLabCheck]

failureResponse(error) == [success |-> FALSE, error |-> error]

(***************************************************************************)
(* The inputs.  Every quantity is sampled on both sides of each threshold  *)
(* the code compares it with; requests also carry the end points of the    *)
(* validation ranges, values up to MaxOutside steps outside them, and      *)
(* absent fields.                                                          *)
(***************************************************************************)
MaxOutside == 1

Nums(S) == {Num(n) : n \in S}

Around(lo, hi) == ((lo - MaxOutside)..lo) \cup (hi..(hi + MaxOutside))

SodiumValues == {129, 130, 134, 135}

PotassiumValues == {29, 30, 50, 51, 55, 56}

ChlorideValues == {69, 70, 89, 90}

PhValues == {745, 746, 755, 756}

WeightValues == {11, 29, 30, 100}

\* Weights past the 10 kg breakpoint, which only a direct call can supply:
\* 10.1 kg up to MaxHeavy tenths above 10 kg.
MaxHeavy == 5

HeavyWeightValues == 101..(100 + MaxHeavy)

GlucoseValues == {0, 24, 25, 29, 30}

HctValues == {50, 51}

LactateValues == {20, 21}

\* Requests that probe the validation: required fields absent, outside,
\* at the ends of and inside their ranges; no optional field.
BoundaryRequests ==
    [sodium     : {Undefined} \cup Nums(Around(120, 155) \cup SodiumValues),
     potassium  : {Undefined} \cup Nums(Around(20, 80) \cup PotassiumValues),
     chloride   : {Undefined} \cup Nums(Around(60, 120) \cup ChlorideValues),
     ph         : {Undefined} \cup Nums(Around(700, 770) \cup PhValues),
     weight     : {Undefined} \cup Nums(Around(10, 100) \cup WeightValues),
     glucose    : {Undefined},
     hct        : {Undefined},
     lactate    : {Undefined},
     creatinine : {Undefined},
     bun        : {Undefined}]

\* Requests with every required field in range and the optional fields
\* absent or supplied.
ClinicalRequests ==
    [sodium     : Nums(SodiumValues),
     potassium  : Nums(PotassiumValues),
     chloride   : Nums(ChlorideValues),
     ph         : Nums(PhValues),
     weight     : Nums(WeightValues),
     glucose    : {Undefined} \cup Nums(GlucoseValues),
     hct        : {Undefined} \cup Nums(HctValues),
     lactate    : {Undefined} \cup Nums(LactateValues),
     creatinine : {Undefined},
     bun        : {Undefined}]

Requests == BoundaryRequests \cup ClinicalRequests

\* Snapshots for a direct call of the engine.
EngineSnapshots ==
    [sodium     : Nums(SodiumValues),
     potassium  : Nums(PotassiumValues),
     chloride   : Nums(ChlorideValues),
     ph         : Nums(PhValues),
     weight     : Nums(WeightValues \cup HeavyWeightValues),
     glucose    : {Null} \cup Nums(GlucoseValues),
     hct        : {Null} \cup Nums(HctValues),
     lactate    : {Null} \cup Nums(LactateValues),
     creatinine : {Null},
     bun        : {Null}]

(***************************************************************************)
(* The state: the request body being served, the snapshot the engine was   *)
(* called with, and the response (or the plan, for a direct call).         *)
(***************************************************************************)
NoRequest == [none |-> "request"]

NotInvoked == [none |-> "snapshot"]

NoResponse == [none |-> "response"]

Init ==
    /\ body = NoRequest
    /\ snapshot = NotInvoked
    /\ response = NoResponse

\* POST /calculate with request body b.
handleCalculate(b) ==
    /\ body' = b
    /\ LET validation == validateInputs([sodium    |-> b.sodium,
                                         potassium |-> b.potassium,
                                         chloride  |-> b.chloride,
                                         ph        |-> b.ph,
                                         weight    |-> b.weight])
       IN  IF ~validation.valid
           THEN /\ snapshot' = NotInvoked
                /\ response' = failureResponse(validation.error)
           ELSE /\ snapshot' = snapshotOf(b)
                /\ response' = successResponse(calculateIHPSFluidPlan(snapshotOf(b)))

PostCalculate ==
    /\ body = NoRequest
    /\ \E b \in Requests : handleCalculate(b)

Next == PostCalculate

Spec == Init /\ [][Next]_vars

\* A direct call calculateIHPSFluidPlan(s).
CalculatePlan ==
    /\ snapshot = NotInvoked
    /\ \E s \in EngineSnapshots :
          /\ snapshot' = s
          /\ response' = calculateIHPSFluidPlan(s)
    /\ UNCHANGED body

NextEngine == CalculatePlan

SpecEngine == Init /\ [][NextEngine]_vars

(***************************************************************************)
(* Vocabulary of the properties.                                           *)
(***************************************************************************)
Requested == body # NoRequest

Invoked == snapshot # NotInvoked

\* x is a supplied number within [lo, hi].
PresentInRange(x, lo, hi) == IsNum(x) /\ lo <= x.v /\ x.v <= hi

KCl20 == " + 20 mEq/L KCl"

KCl40 == " + 40 mEq/L KCl"

\* The label is base fluid B with any of the three potassium overlays.
HasBaseFluid(label, B) == label \in {B, B \o KCl20, B \o KCl40}

BaseFluids == {"D10 1/2 NS", "D10 NS", "D5 1/2 NS", "NS + 5% Dextrose"}

HyponatremiaAlert == "WARNING: Severe hyponatremia - use NS + 5% Dextrose"

(***************************************************************************)
(* C1.  The engine runs only for a request whose five required fields are  *)
(* all present and within their ranges; any other request is answered      *)
(* success=false with the message of an offending field and no plan field. *)
(* The code lets an absent field through: undefined compares false with    *)
(* both ends of its range.                                                 *)
(***************************************************************************)
C1_Offending(b) ==
    (IF PresentInRange(b.sodium, 120, 155) THEN {}
     ELSE {"Sodium must be between 120-155 mmol/L"})
    \cup (IF PresentInRange(b.potassium, 20, 80) THEN {}
          ELSE {"Potassium must be between 2.0-8.0 mmol/L"})
    \cup (IF PresentInRange(b.chloride, 60, 120) THEN {}
          ELSE {"Chloride must be between 60-120 mmol/L"})
    \cup (IF PresentInRange(b.ph, 700, 770) THEN {}
          ELSE {"pH must be between 7.0-7.7"})
    \cup (IF PresentInRange(b.weight, 10, 100) THEN {}
          ELSE {"Weight must be between 1.0-10.0 kg"})

\* C1 as claimed: a request with an absent or out-of-range required field
\* never reaches the engine and gets a bare failure response.
C1_EngineOnlyForCompleteRequests ==
    (Requested /\ C1_Offending(body) # {}) =>
        /\ ~Invoked
        /\ DOMAIN response = {"success", "error"}
        /\ response.success = FALSE
        /\ response.error \in C1_Offending(body)

(***************************************************************************)
(* C2.  totalFluidVolume against the plan's own fluidRatePerHour and       *)
(* correctionTime.                                                         *)
(***************************************************************************)
\* C2 as claimed: totalFluidVolume is the product of the returned
\* fluidRatePerHour and the returned correctionTime.
C2_TotalIsProductOfPlanFields ==
    (Requested /\ Invoked /\ C1_Offending(body) = {}) =>
        response.totalFluidVolume.v =
            response.fluidRatePerHour.v * response.correctionTime

\* C2 amended: totalFluidVolume is the unrounded rate (weight x 6) times
\* correctionTime, rounded once; it is the product of the two returned fields
\* whenever weight x 6 is whole.
C2_TotalIsRoundedOnce ==
    (Requested /\ Invoked /\ C1_Offending(body) = {}) =>
        LET w == snapshot.weight.v
            T == response.correctionTime
        IN  /\ response.totalFluidVolume.v = (2 * (6 * w * T) + 10) \div 20
            /\ ((6 * w) % 10 = 0 =>
                   response.totalFluidVolume.v = response.fluidRatePerHour.v * T)

\* A plan for 1.1 kg: the rate 6.6 is returned as 7, and the total is not
\* 7 x correctionTime.
C2_Witness ==
    /\ Requested /\ Invoked /\ C1_Offending(body) = {}
    /\ snapshot.weight = Num(11)
    /\ response.fluidRatePerHour = Num(7)
    /\ response.totalFluidVolume.v # 7 * response.correctionTime

(***************************************************************************)
(* C3.  The base fluid as a function of glucose and sodium alone.          *)
(***************************************************************************)
C3_ClaimedBase(glucose, sodium) ==
    LET low == IsNum(sodium) /\ sodium.v < 135
    IN  IF IsNum(glucose) /\ glucose.v < 25
        THEN (IF low THEN "D10 1/2 NS" ELSE "D10 NS")
        ELSE IF IsNum(glucose) /\ glucose.v < 30
        THEN (IF low THEN "D10 1/2 NS" ELSE "D5 1/2 NS")
        ELSE (IF low THEN "NS + 5% Dextrose" ELSE "D5 1/2 NS")

\* C3 as claimed: a supplied glucose g >= 0 below 2.5 selects a D10 fluid,
\* one in [2.5, 3.0) the mildly-low branch, absent or >= 3.0 the standard
\* branch.  A supplied glucose of 0 is taken for an absent one.
C3_BaseFluidByGlucoseAndSodium ==
    (Requested /\ Invoked) =>
        HasBaseFluid(response.fluidType, C3_ClaimedBase(body.glucose, body.sodium))

(***************************************************************************)
(* C4.  The potassium overlay on each base fluid.                          *)
(***************************************************************************)
\* C4: whichever base fluid B was chosen, the label is B + 40 mEq/L KCl with
\* the aggressive-KCl fragment appended to the reason when potassium < 3.0,
\* bare B with the hold-KCl fragment when potassium > 5.0, and
\* B + 20 mEq/L KCl with the reason untouched in between.
C4_OverlayComposesWithEveryBase ==
    Invoked =>
        LET sel == baseFluidSelection(snapshot)
            k   == snapshot.potassium.v
        IN  \E B \in BaseFluids :
              /\ sel.fluid = B \o KCl20
              /\ k < 30 =>
                    /\ response.fluidType = B \o KCl40
                    /\ response.fluidSelectionReason =
                          sel.reason \o " + aggressive KCl for severe hypokalaemia"
              /\ k > 50 =>
                    /\ response.fluidType = B
                    /\ response.fluidSelectionReason =
                          sel.reason \o " + hold KCl for hyperkalaemia"
              /\ (30 <= k /\ k <= 50) =>
                    /\ response.fluidType = B \o KCl20
                    /\ response.fluidSelectionReason = sel.reason

\* The KCl additive removed from the one base label that itself holds " + ".
C4_Witness ==
    /\ Invoked
    /\ snapshot.potassium.v > 50
    /\ response.fluidType = "NS + 5% Dextrose"

(***************************************************************************)
(* C5.  The range of correctionTime.                                       *)
(***************************************************************************)
\* C5: every request that passes validation gets a correctionTime among
\* 12, 18, 24, 30, 36 and 42 hours.
C5_CorrectionTimeInFixedSet ==
    (Requested /\ Invoked) => response.correctionTime \in {12, 18, 24, 30, 36, 42}

\* Moderate alkalosis alone in a small infant: 18 + 6 hours.
C5_Witness ==
    /\ Requested /\ Invoked
    /\ snapshot.ph = Num(746)
    /\ snapshot.weight = Num(29)
    /\ response.correctionTime = 24

(***************************************************************************)
(* C6.  Monotonicity of calculateCorrectionTime.                           *)
(***************************************************************************)
\* C6: with the other inputs of the snapshot held fixed, a lower sodium, a
\* lower chloride or a higher pH never gives a shorter correctionTime.
C6_CorrectionTimeMonotone ==
    Invoked =>
        /\ \A na \in SodiumValues \cup {120, 155} :
              na <= snapshot.sodium.v =>
                 calculateCorrectionTime([snapshot EXCEPT !.sodium = Num(na)])
                    >= response.correctionTime
        /\ \A cl \in ChlorideValues \cup {60, 120} :
              cl <= snapshot.chloride.v =>
                 calculateCorrectionTime([snapshot EXCEPT !.chloride = Num(cl)])
                    >= response.correctionTime
        /\ \A ph \in PhValues \cup {700, 770} :
              ph >= snapshot.ph.v =>
                 calculateCorrectionTime([snapshot EXCEPT !.ph = Num(ph)])
                    >= response.correctionTime

\* Severe hyponatremia with chloride just normal: lowering the chloride to
\* the moderate band must not shorten the 36 hours.
C6_Witness ==
    /\ Invoked
    /\ snapshot.sodium = Num(129)
    /\ snapshot.chloride = Num(90)
    /\ snapshot.weight = Num(30)
    /\ response.correctionTime = 36
    /\ calculateCorrectionTime([snapshot EXCEPT !.chloride = Num(89)]) = 36
    /\ calculateCorrectionTime([snapshot EXCEPT !.sodium = Num(135)]) < 36

(***************************************************************************)
(* C7.  The bolus tier and its escalators.                                 *)
(***************************************************************************)
C7_Tier(s) ==
    IF s.sodium.v < 130 \/ s.chloride.v < 70 \/ s.ph.v > 755 THEN 20
    ELSE IF s.sodium.v < 135 \/ s.chloride.v < 90 \/ s.ph.v > 745 THEN 10
    ELSE 0

C7_Escalated(s) ==
    \/ IsNum(s.hct) /\ s.hct.v > 50
    \/ IsNum(s.lactate) /\ s.lactate.v > 20

\* C7: the volume is the severity tier, raised to at least 10 when the
\* hematocrit or lactate escalator fires and never lowered; it is 0, 10 or
\* 20, and totalVolume is volume x weight rounded.
C7_BolusTierAndEscalators ==
    Invoked =>
        LET tier == C7_Tier(snapshot)
            b    == response.bolusRecommendation
        IN  /\ b.volume = IF C7_Escalated(snapshot) /\ tier < 10 THEN 10 ELSE tier
            /\ b.volume \in {0, 10, 20}
            /\ b.volume >= tier
            /\ b.totalVolume.v = (2 * (b.volume * snapshot.weight.v) + 10) \div 20

\* Both escalators fire on a severe case and the 20 mL/kg stands.
C7_Witness ==
    /\ Invoked
    /\ C7_Tier(snapshot) = 20
    /\ snapshot.hct = Num(51)
    /\ snapshot.lactate = Num(21)
    /\ snapshot.weight = Num(29)
    /\ response.bolusRecommendation.volume = 20
    /\ response.bolusRecommendation.totalVolume = Num(58)

(***************************************************************************)
(* C8.  The alerts.                                                        *)
(***************************************************************************)
C8_Messages ==
    <<"CRITICAL: Severe hypokalaemia - aggressive KCl needed",
      "CRITICAL: Hyperkalaemia risk - hold KCl, monitor closely",
      "WARNING: Severe hyponatremia - use NS + 5% Dextrose",
      "WARNING: Severe hypochloremia - expect longer correction time",
      "WARNING: Severe alkalosis - slow correction needed">>

C8_Conditions(s) ==
    <<s.potassium.v < 30,
      s.potassium.v > 55,
      s.sodium.v < 130,
      s.chloride.v < 70,
      s.ph.v > 755>>

\* C8: the alerts are exactly the messages of the conditions that hold, one
\* each, in the fixed order; so the list is empty iff no condition holds.
C8_AlertsAreTheFiredConditions ==
    Invoked =>
        LET conds == C8_Conditions(snapshot)
            fired == SelectSeq(<<1, 2, 3, 4, 5>>, LAMBDA i : conds[i])
        IN  /\ response.alerts = [j \in 1..Len(fired) |-> C8_Messages[fired[j]]]
            /\ (response.alerts = <<>>) <=> (\A i \in 1..5 : ~conds[i])
            /\ \A i, j \in 1..Len(response.alerts) :
                  i # j => response.alerts[i] # response.alerts[j]

\* Hyperkalaemia, hyponatremia, hypochloremia and alkalosis fire together.
C8_Witness ==
    /\ Invoked
    /\ snapshot.potassium = Num(56)
    /\ Len(response.alerts) = 4
    /\ response.alerts[1] = C8_Messages[2]
    /\ response.alerts[4] = C8_Messages[5]

(***************************************************************************)
(* C9.  The two rates.                                                     *)
(***************************************************************************)
\* C9: up to 10 kg the plan has round(weight x 6) and round(weight x 4);
\* past 10 kg round(60 + (weight - 10) x 3) and round(40 + (weight - 10) x 2).
\* Unrounded, the fluid rate is 1.5 x the maintenance rate on both branches,
\* and each rate leaves its 10 kg value at its own slope, without a jump.
C9_RatesPiecewise ==
    Invoked =>
        LET w     == snapshot.weight.v
            fluid == IF w <= 100 THEN 6 * w ELSE 600 + 3 * (w - 100)
            maint == IF w <= 100 THEN 4 * w ELSE 400 + 2 * (w - 100)
        IN  /\ response.fluidRatePerHour.v = (2 * fluid + 10) \div 20
            /\ response.maintenanceRate.v = (2 * maint + 10) \div 20
            /\ 2 * fluidRatePerHourOf(snapshot.weight).v
                  = 3 * maintenanceRateOf(snapshot.weight).v
            /\ w > 100 =>
                  /\ fluidRatePerHourOf(snapshot.weight).v
                        - fluidRatePerHourOf(Num(100)).v = 3 * (w - 100)
                  /\ maintenanceRateOf(snapshot.weight).v
                        - maintenanceRateOf(Num(100)).v = 2 * (w - 100)

\* 10.5 kg: 61.5 mL/hr is returned as 62, maintenance 41.
C9_Witness ==
    /\ Invoked
    /\ snapshot.weight = Num(105)
    /\ response.fluidRatePerHour = Num(62)
    /\ response.maintenanceRate = Num(41)

(***************************************************************************)
(* C10.  The hyponatremia alert against the fluid selected.                *)
(***************************************************************************)
\* C10 as claimed: a plan whose alerts say "use NS + 5% Dextrose" has
\* NS + 5% Dextrose as its base fluid, whatever the glucose.  With a low
\* glucose the selector picks a D10 fluid and the alert is raised all the same.
C10_HyponatremiaAlertMatchesFluid ==
    (Requested /\ Invoked) =>
        ((\E i \in 1..Len(response.alerts) : response.alerts[i] = HyponatremiaAlert)
            => HasBaseFluid(response.fluidType, "NS + 5% Dextrose"))

(***************************************************************************)
(* C11.  The bolus reason against the bolus volume.                        *)
(***************************************************************************)
StartsWith(s, prefix) ==
    Len(s) >= Len(prefix) /\ SubSeq(s, 1, Len(prefix)) = prefix

\* C11 as claimed: the reason starts with "No bolus needed" exactly when the
\* volume is 0 mL/kg, and then totalVolume is 0.  An escalator that fires on
\* the lowest tier raises the volume to 10 and appends to the reason, which
\* still opens with "No bolus needed".
C11_NoBolusReasonIffZeroVolume ==
    Invoked =>
        LET b == response.bolusRecommendation
        IN  /\ StartsWith(b.reason, "No bolus needed") <=> (b.volume = 0)
            /\ b.volume = 0 => b.totalVolume = Num(0)

====
